---- MODULE Spec2Model ----
(***************************************************************************)
(* Model of process_pdfs.py: the heading/title classifier                  *)
(* identify_headings with its scorer compute_heading_score, and the batch  *)
(* loop process_pdfs.                                                      *)
(*                                                                         *)
(* Numbers.  Font sizes are integers in hundredths of a point (the         *)
(* extractor rounds them to two decimals); page coordinates are integer    *)
(* points.  Every comparison of the source is done on exact rationals      *)
(* [n, d] with d > 0, in hundredths of a point; a rational is not reduced  *)
(* and is only ever compared with RLt and RLe.                             *)
(***************************************************************************)
EXTENDS Integers, Sequences, FiniteSets, TLC

VARIABLES lines, pdf, pc, title, title_page, body_text_size, heading_size_map,
          outline, seen_headings, headings_per_page, i,
          pdf_files, f, structured_output, output_files, printed, bpc

vars == <<lines, pdf, pc, title, title_page, body_text_size, heading_size_map,
          outline, seen_headings, headings_per_page, i,
          pdf_files, f, structured_output, output_files, printed, bpc>>

hvars == <<lines, pdf, pc, title, title_page, body_text_size, heading_size_map,
           outline, seen_headings, headings_per_page, i>>

bvars == <<pdf_files, f, structured_output, output_files, printed, bpc>>

(***************************************************************************)
(* Exact rational arithmetic                                               *)
(***************************************************************************)
Abs(a) == IF a < 0 THEN -a ELSE a

R(n, d) == [n |-> n, d |-> d]

RLt(a, b) == a.n * b.d < b.n * a.d
RLe(a, b) == a.n * b.d <= b.n * a.d
RAdd(a, b) == R(a.n * b.d + b.n * a.d, a.d * b.d)
RSub(a, b) == R(a.n * b.d - b.n * a.d, a.d * b.d)
RMul(a, b) == R(a.n * b.n, a.d * b.d)
RAbs(a) == [n |-> Abs(a.n), d |-> a.d]
RMax(a, b) == IF RLt(a, b) THEN b ELSE a

\* a size in hundredths of a point, a coordinate in points
Sz(s) == R(s, 1)
Pt(y) == R(y * 100, 1)

(***************************************************************************)
(* Sorting.  sorted() and list.sort() are stable: an element comes after   *)
(* the elements that are smaller, and after the equal ones met before it.  *)
(***************************************************************************)
StableSort(s, Less(_, _)) ==
    LET Rank(j) == Cardinality({m \in 1..Len(s) :
                        Less(s[m], s[j]) \/ (~Less(s[j], s[m]) /\ m < j)}) + 1
    IN  [k \in 1..Len(s) |-> s[CHOOSE j \in 1..Len(s) : Rank(j) = k]]

(***************************************************************************)
(* Texts.  A line's text is a string; the character-level functions the    *)
(* source applies to it are tabulated for the texts of the model.          *)
(***************************************************************************)
NoTitle == "No Title Found"

LongText == "This retained line of running prose is longer than eighty characters in total length"

\* sum(c.isalnum() for c in text)
AlnumCount(t) ==
    CASE t = "1. Introduction" -> 13
      [] t = "Chapter 1" -> 8
      [] t = "CHAPTER 1" -> 8
      [] t = "Summary" -> 7
      [] t = "Annual Report 2024" -> 16
      [] t = "Draft" -> 5
      [] t = " Draft " -> 5
      [] t = "FAQ" -> 3
      [] t = "v1" -> 2
      [] t = "body text" -> 8
      [] t = NoTitle -> 12
      [] t = LongText -> 72
      [] OTHER -> 0

\* text.lower().strip()
LowerStrip(t) ==
    CASE t = "1. Introduction" -> "1. introduction"
      [] t = "Chapter 1" -> "chapter 1"
      [] t = "CHAPTER 1" -> "chapter 1"
      [] t = "Summary" -> "summary"
      [] t = "Annual Report 2024" -> "annual report 2024"
      [] t = "Draft" -> "draft"
      [] t = "FAQ" -> "faq"
      [] t = NoTitle -> "no title found"
      [] t = LongText -> "this retained line of running prose is longer than eighty characters in total length"
      [] OTHER -> t

\* unicodedata.normalize("NFKC", s.strip()) on the metadata titles of the model
StripNFKC(t) ==
    CASE t = " Draft " -> "Draft"
      [] t = "   " -> ""
      [] OTHER -> t

is_heading_numbered(t) == t = "1. Introduction"

is_bold(flags) == (flags \div 4) % 2 = 1

(***************************************************************************)
(* Lines                                                                   *)
(***************************************************************************)
RECURSIVE SumSizes(_)
SumSizes(spans) ==
    IF spans = <<>> THEN 0 ELSE Head(spans).size + SumSizes(Tail(spans))

\* sum(span["size"]) / len(spans) if spans else 0
AvgSize(line) ==
    IF line.spans = <<>> THEN R(0, 1) ELSE R(SumSizes(line.spans), Len(line.spans))

AnyBold(line) == \E k \in 1..Len(line.spans) : is_bold(line.spans[k].flags)

(***************************************************************************)
(* compute_heading_score                                                   *)
(***************************************************************************)
Has(hmap, k) == k \in DOMAIN hmap

\* the "bonus for matching heading sizes" of the score
TierBonus(avg_size, hmap) ==
    IF Has(hmap, "H1") /\ RLe(RMul(Sz(hmap["H1"]), R(19, 20)), avg_size) THEN 25
    ELSE IF Has(hmap, "H2") /\ RLe(RMul(Sz(hmap["H2"]), R(19, 20)), avg_size) THEN 20
    ELSE IF Has(hmap, "H3") /\ RLe(RMul(Sz(hmap["H3"]), R(19, 20)), avg_size) THEN 15
    ELSE 0

compute_heading_score(line, hmap, body) ==
    LET avg_size == AvgSize(line)
        is_any_bold == AnyBold(line)
        is_numbered == is_heading_numbered(line.text)
        is_short == Len(line.text) < 80
        spacing_above == IF line.spacing_above > 0 THEN line.spacing_above ELSE 0
        is_sparse == line.block_density <= 3
    IN  (IF RLt(RMul(body, R(6, 5)), avg_size) THEN 40 ELSE 0)
      + (IF is_any_bold THEN 25 ELSE 0)
      + (IF is_numbered THEN 25 ELSE 0)
      + (IF is_short THEN 20 ELSE 0)
      + (IF line.is_centered THEN 15 ELSE 0)
      + (IF RLt(RMul(avg_size, R(2, 1)), Pt(spacing_above)) THEN 20 ELSE 0)
      + (IF is_sparse THEN 15 ELSE 0)
      + TierBonus(avg_size, hmap)

(***************************************************************************)
(* identify_headings: metadata title                                       *)
(***************************************************************************)
\* the title after the metadata block; an absent title is ""
MetadataTitle(p) ==
    IF p.title # "" /\ StripNFKC(p.title) # "" /\ AlnumCount(p.title) >= 3
    THEN StripNFKC(p.title)
    ELSE NoTitle

(***************************************************************************)
(* identify_headings: body text size and heading sizes                     *)
(***************************************************************************)
RECURSIVE LineSizes(_)
LineSizes(spans) ==
    IF spans = <<>> THEN <<>>
    ELSE (IF Head(spans).size > 600 THEN <<Head(spans).size>> ELSE <<>>)
         \o LineSizes(Tail(spans))

\* [span["size"] for line in lines for span in line["spans"] if span["size"] > 6]
RECURSIVE AllFontSizes(_)
AllFontSizes(ls) ==
    IF ls = <<>> THEN <<>> ELSE LineSizes(Head(ls).spans) \o AllFontSizes(Tail(ls))

SortAsc(s) == StableSort(s, LAMBDA a, b : a < b)

\* statistics.median
Median(s) ==
    LET t == SortAsc(s)
        n == Len(t)
    IN  IF n % 2 = 1 THEN Sz(t[(n + 1) \div 2])
        ELSE R(t[n \div 2] + t[n \div 2 + 1], 2)

\* round(s, 1): to the nearest tenth of a point (halves to even)
Round1(s) ==
    LET q == s \div 10
        r == s % 10
    IN  IF r < 5 THEN 10 * q
        ELSE IF r > 5 THEN 10 * (q + 1)
        ELSE IF q % 2 = 0 THEN 10 * q ELSE 10 * (q + 1)

CountOf(v, s) == Cardinality({k \in 1..Len(s) : Round1(s[k]) = v})

\* Counter(...).most_common()[0][0]: the most frequent rounded size, the
\* first inserted one among equally frequent sizes
MostCommon(s) ==
    LET best == CHOOSE k \in 1..Len(s) :
                  /\ \A j \in 1..Len(s) : CountOf(Round1(s[j]), s) <= CountOf(Round1(s[k]), s)
                  /\ \A j \in 1..(k - 1) : CountOf(Round1(s[j]), s) < CountOf(Round1(s[k]), s)
    IN  Round1(s[best])

BodyTextSize(sizes) == RMax(Median(sizes), Sz(MostCommon(sizes)))

\* sorted(list(set(...)), reverse=True)
SortDesc(S) ==
    [k \in 1..Cardinality(S) |-> CHOOSE x \in S : Cardinality({y \in S : y > x}) = k - 1]

PotentialHeadingSizes(sizes, body) ==
    SortDesc({sizes[k] : k \in {j \in 1..Len(sizes) : RLt(RMul(body, R(6, 5)), Sz(sizes[j]))}})

Below95(a, b) == RLt(Sz(a), RMul(Sz(b), R(19, 20)))

HeadingSizeMap(p) ==
    (IF Len(p) >= 1 THEN "H1" :> p[1] ELSE <<>>)
    @@ (IF Len(p) >= 2 /\ Below95(p[2], p[1]) THEN "H2" :> p[2] ELSE <<>>)
    @@ (IF Len(p) >= 3 /\ Below95(p[3], p[1]) THEN "H3" :> p[3] ELSE <<>>)
    @@ (IF Len(p) >= 4 /\ Below95(p[4], p[1]) THEN "H4" :> p[4] ELSE <<>>)

(***************************************************************************)
(* identify_headings: title detection                                      *)
(***************************************************************************)
\* sorted(..., key=lambda x: x["bbox"][1])
SortByY0(s) == StableSort(s, LAMBDA a, b : a.y0 < b.y0)

FirstPageLines(ls) == SortByY0(SelectSeq(ls, LAMBDA l : l.page = 1))

\* the test that lets a line continue the cluster of the line before it
Continues(prev, line) ==
    /\ RLt(Pt(line.y0 - prev.y1), RMul(AvgSize(line), R(3, 2)))
    /\ RLt(RAbs(RSub(AvgSize(line), AvgSize(prev))), Sz(100))

RECURSIVE ClusterLoop(_, _, _, _)
ClusterLoop(ls, k, cands, cur) ==
    IF k > Len(ls) THEN (IF cur # <<>> THEN Append(cands, cur) ELSE cands)
    ELSE IF k = 1 \/ Continues(ls[k - 1], ls[k])
         THEN ClusterLoop(ls, k + 1, cands, Append(cur, ls[k]))
         ELSE ClusterLoop(ls, k + 1,
                          IF cur # <<>> THEN Append(cands, cur) ELSE cands,
                          <<ls[k]>>)

TitleCandidates(ls) ==
    CHOOSE c \in {ClusterLoop(first_page_lines, 1, <<>>, <<>>) :
                     first_page_lines \in {FirstPageLines(ls)}} : TRUE

\* " ".join(line["text"] for line in candidate)
RECURSIVE JoinText(_)
JoinText(cand) ==
    IF Len(cand) = 1 THEN cand[1].text
    ELSE cand[1].text \o " " \o JoinText(Tail(cand))

RECURSIVE CandAlnum(_)
CandAlnum(cand) ==
    IF cand = <<>> THEN 0 ELSE AlnumCount(Head(cand).text) + CandAlnum(Tail(cand))

RECURSIVE SumAvg(_)
SumAvg(cand) ==
    IF cand = <<>> THEN R(0, 1) ELSE RAdd(AvgSize(Head(cand)), SumAvg(Tail(cand)))

CandAvgSize(cand) == RMul(SumAvg(cand), R(1, Len(cand)))

TitleScore(cand, body, page_height) ==
      (IF RLt(RMul(body, R(13, 10)), CandAvgSize(cand)) THEN 40 ELSE 0)
    + (IF \E k \in 1..Len(cand) : cand[k].is_centered THEN 25 ELSE 0)
    + (IF \E k \in 1..Len(cand) : AnyBold(cand[k]) THEN 25 ELSE 0)
    + (IF cand[1].y0 * 4 < page_height THEN 30 ELSE 0)
    + (IF Len(cand) = 1 \/ (Len(cand) > 1 /\ \A k \in 1..Len(cand) : cand[k].block_density <= 3)
       THEN 20 ELSE 0)

PassesTextFilter(cand) == ~(CandAlnum(cand) < 3 \/ Len(JoinText(cand)) < 5)

\* variant: an equally scored later cluster replaces the best one
RECURSIVE BestTitleLoop_LastWins(_, _, _, _, _)
BestTitleLoop_LastWins(cands, k, best, body, page_height) ==
    IF k > Len(cands) THEN best
    ELSE IF ~PassesTextFilter(cands[k])
         THEN BestTitleLoop_LastWins(cands, k + 1, best, body, page_height)
    ELSE LET score == TitleScore(cands[k], body, page_height)
         IN  IF score >= best.score /\ score >= 80
             THEN BestTitleLoop_LastWins(cands, k + 1,
                                         [score |-> score, text |-> JoinText(cands[k])],
                                         body, page_height)
             ELSE BestTitleLoop_LastWins(cands, k + 1, best, body, page_height)

\* the loop over title_candidates; best is [score, text]
RECURSIVE BestTitleLoop(_, _, _, _, _)
BestTitleLoop(cands, k, best, body, page_height) ==
    IF k > Len(cands) THEN best
    ELSE IF ~PassesTextFilter(cands[k]) THEN BestTitleLoop(cands, k + 1, best, body, page_height)
    ELSE LET score == TitleScore(cands[k], body, page_height)
         IN  IF score > best.score /\ score >= 80
             THEN BestTitleLoop(cands, k + 1, [score |-> score, text |-> JoinText(cands[k])],
                                body, page_height)
             ELSE BestTitleLoop(cands, k + 1, best, body, page_height)

DetectTitle(cands, t, body, page_height) ==
    LET best == BestTitleLoop(cands, 1, [score |-> 0, text |-> t], body, page_height)
    IN  IF best.score >= 80 THEN best.text ELSE t

(***************************************************************************)
(* identify_headings: the loop over the lines                              *)
(***************************************************************************)
None == "None"

\* variant: H1 is given from a score of 80
AssignLevel_H1Floor80(avg_size, score, hmap) ==
    IF /\ Has(hmap, "H1")
       /\ RLe(RMul(Sz(hmap["H1"]), R(19, 20)), avg_size)
       /\ score >= 80
    THEN "H1"
    ELSE IF /\ Has(hmap, "H2")
            /\ RLe(RMul(Sz(hmap["H2"]), R(19, 20)), avg_size)
            /\ (Has(hmap, "H1") => RLt(avg_size, RMul(Sz(hmap["H1"]), R(19, 20))))
            /\ score >= 90
    THEN "H2"
    ELSE IF /\ Has(hmap, "H3")
            /\ RLe(RMul(Sz(hmap["H3"]), R(19, 20)), avg_size)
            /\ (Has(hmap, "H2") => RLt(avg_size, RMul(Sz(hmap["H2"]), R(19, 20))))
            /\ score >= 80
    THEN "H3"
    ELSE "None"

AssignLevel(avg_size, score, hmap) ==
    IF /\ Has(hmap, "H1")
       /\ RLe(RMul(Sz(hmap["H1"]), R(19, 20)), avg_size)
       /\ score >= 100
    THEN "H1"
    ELSE IF /\ Has(hmap, "H2")
            /\ RLe(RMul(Sz(hmap["H2"]), R(19, 20)), avg_size)
            /\ (Has(hmap, "H1") => RLt(avg_size, RMul(Sz(hmap["H1"]), R(19, 20))))
            /\ score >= 90
    THEN "H2"
    ELSE IF /\ Has(hmap, "H3")
            /\ RLe(RMul(Sz(hmap["H3"]), R(19, 20)), avg_size)
            /\ (Has(hmap, "H2") => RLt(avg_size, RMul(Sz(hmap["H2"]), R(19, 20))))
            /\ score >= 80
    THEN "H3"
    ELSE None

\* variant: a line equal to the title is not left out
ProcessLine_NoTitleCheck(acc, line, t, hmap, body) ==
    LET text == line.text
        page == line.page
        score == compute_heading_score(line, hmap, body)
        level == AssignLevel(AvgSize(line), score, hmap)
        heading_identifier == <<LowerStrip(text), page, level>>
    IN  IF AlnumCount(text) < 2 \/ Len(text) < 3 THEN acc
        ELSE IF acc.count[page] > 8 THEN acc
        ELSE IF line.block_density > 5 THEN acc
        ELSE IF score < 80 THEN acc
        ELSE IF level # None /\ heading_identifier \notin acc.seen
        THEN [outline |-> Append(acc.outline,
                                 [level |-> level, text |-> text, page |-> page, y0 |-> line.y0]),
              seen |-> acc.seen \cup {heading_identifier},
              count |-> [acc.count EXCEPT ![page] = @ + 1]]
        ELSE acc

\* variant: a page stops taking headings one heading later
ProcessLine_CapTen(acc, line, t, hmap, body) ==
    LET text == line.text
        page == line.page
        score == compute_heading_score(line, hmap, body)
        level == AssignLevel(AvgSize(line), score, hmap)
        heading_identifier == <<LowerStrip(text), page, level>>
    IN  IF AlnumCount(text) < 2 \/ Len(text) < 3 THEN acc
        ELSE IF acc.count[page] > 9 THEN acc
        ELSE IF line.block_density > 5 THEN acc
        ELSE IF score < 80 THEN acc
        ELSE IF level # None /\ text # t /\ heading_identifier \notin acc.seen
        THEN [outline |-> Append(acc.outline,
                                 [level |-> level, text |-> text, page |-> page, y0 |-> line.y0]),
              seen |-> acc.seen \cup {heading_identifier},
              count |-> [acc.count EXCEPT ![page] = @ + 1]]
        ELSE acc

\* one iteration of "for line in lines"; acc is [outline, seen, count]
ProcessLine(acc, line, t, hmap, body) ==
    LET text == line.text
        page == line.page
        score == compute_heading_score(line, hmap, body)
        level == AssignLevel(AvgSize(line), score, hmap)
        heading_identifier == <<LowerStrip(text), page, level>>
    IN  IF AlnumCount(text) < 2 \/ Len(text) < 3 THEN acc
        ELSE IF acc.count[page] > 8 THEN acc
        ELSE IF line.block_density > 5 THEN acc
        ELSE IF score < 80 THEN acc
        ELSE IF level # None /\ text # t /\ heading_identifier \notin acc.seen
        THEN [outline |-> Append(acc.outline,
                                 [level |-> level, text |-> text, page |-> page, y0 |-> line.y0]),
              seen |-> acc.seen \cup {heading_identifier},
              count |-> [acc.count EXCEPT ![page] = @ + 1]]
        ELSE acc

(***************************************************************************)
(* identify_headings: ordering and the first-H1 fallback                   *)
(***************************************************************************)
\* variant: the key is the page alone
KeyLess_PageOnly(a, b) == a.page < b.page

KeyLess(a, b) == a.page < b.page \/ (a.page = b.page /\ a.y0 < b.y0)

\* outline.sort(key=lambda x: (x["page"], x["y0"]))
SortOutline(s) == StableSort(s, KeyLess)

\* variant: only the promoted entry itself is removed
RemovePromoted_OnlyEntry(o, e) == SelectSeq(o, LAMBDA x : x # e)

\* the entries the fallback keeps once entry e is promoted
RemovePromoted(o, e) == SelectSeq(o, LAMBDA x : ~(x.text = e.text /\ x.page = e.page))

\* variant: the last H1 entry is promoted
Fallback_LastH1(t, o) ==
    IF t = NoTitle /\ o # <<>> /\ \E k \in 1..Len(o) : o[k].level = "H1"
    THEN LET k == CHOOSE k \in 1..Len(o) :
                    o[k].level = "H1" /\ \A j \in (k + 1)..Len(o) : o[j].level # "H1"
         IN  [title |-> o[k].text, page |-> o[k].page, outline |-> RemovePromoted(o, o[k])]
    ELSE [title |-> t, page |-> 0, outline |-> o]

\* the fallback; the result is [title, page, outline], page 0 when nothing is promoted
Fallback(t, o) ==
    IF t = NoTitle /\ o # <<>> /\ \E k \in 1..Len(o) : o[k].level = "H1"
    THEN LET k == CHOOSE k \in 1..Len(o) :
                    o[k].level = "H1" /\ \A j \in 1..(k - 1) : o[j].level # "H1"
         IN  [title |-> o[k].text, page |-> o[k].page, outline |-> RemovePromoted(o, o[k])]
    ELSE [title |-> t, page |-> 0, outline |-> o]

\* "del entry['y0']": the entries as returned
RECURSIVE Returned(_)
Returned(o) ==
    IF o = <<>> THEN <<>>
    ELSE <<[level |-> Head(o).level, text |-> Head(o).text, page |-> Head(o).page]>>
         \o Returned(Tail(o))

(***************************************************************************)
(* Documents.  A line as extract_text_details builds it; spacing_above is  *)
(* computed from the retained line before it on the same page.             *)
(***************************************************************************)
Sp(size, flags) == [size |-> size, flags |-> flags]

Ln(text, page, y0, y1, spans, is_centered, block_density) ==
    [text |-> text, page |-> page, y0 |-> y0, y1 |-> y1, spans |-> spans,
     is_centered |-> is_centered, block_density |-> block_density]

\* spacing_above = (min_y0 - prev_y1) if prev_y1 is not None else 0
WithSpacing(shapes) ==
    [k \in 1..Len(shapes) |->
        [text |-> shapes[k].text, page |-> shapes[k].page,
         y0 |-> shapes[k].y0, y1 |-> shapes[k].y1, spans |-> shapes[k].spans,
         is_centered |-> shapes[k].is_centered,
         spacing_above |-> IF k > 1 /\ shapes[k - 1].page = shapes[k].page
                           THEN shapes[k].y0 - shapes[k - 1].y1 ELSE 0,
         block_density |-> shapes[k].block_density]]

MaxLines == 4

PageHeights == {800}

Shapes == <<
    Ln(LongText, 1, 400, 412,
       <<Sp(1200, 0), Sp(1200, 0), Sp(1204, 0), Sp(1200, 0), Sp(1200, 0)>>, FALSE, 5),
    Ln("Chapter 1", 1, 100, 124, <<Sp(2400, 4)>>, TRUE, 1),
    Ln("Summary", 1, 130, 154, <<Sp(2400, 16)>>, FALSE, 2),
    Ln("Annual Report 2024", 1, 160, 183, <<Sp(2300, 20)>>, TRUE, 1),
    Ln("FAQ", 1, 90, 114, <<Sp(2400, 4)>>, TRUE, 1),
    Ln("body text", 1, 700, 705, <<Sp(500, 0)>>, FALSE, 6),
    Ln("Summary", 2, 300, 324, <<Sp(2400, 16)>>, FALSE, 4),
    Ln("Chapter 1", 2, 100, 118, <<Sp(1800, 4)>>, FALSE, 1),
    Ln("CHAPTER 1", 2, 600, 618, <<Sp(1800, 4)>>, FALSE, 1),
    Ln("Summary", 2, 200, 215, <<Sp(1500, 4), Sp(1500, 0)>>, FALSE, 2),
    Ln("Chapter 1", 2, 500, 524, <<Sp(2400, 4)>>, FALSE, 1),
    Ln("Draft", 2, 150, 174, <<Sp(2400, 4)>>, FALSE, 1) >>

\* the retained lines of a document: distinct lines, page after page
Docs ==
    {WithSpacing([k \in 1..Len(s) |-> Shapes[s[k]]]) :
        s \in {t \in UNION {[1..n -> 1..Len(Shapes)] : n \in 1..MaxLines} :
                 /\ \A a, b \in 1..Len(t) : a < b => t[a] # t[b]
                 /\ \A a \in 1..(Len(t) - 1) : Shapes[t[a]].page <= Shapes[t[a + 1]].page}}

PdfTitles == {"", " Draft ", "v1"}

(***************************************************************************)
(* State machine of identify_headings                                      *)
(***************************************************************************)
PagesOf(ls) == {ls[k].page : k \in 1..Len(ls)}

BatchIdle ==
    /\ pdf_files = <<>>
    /\ f = 0
    /\ structured_output = [title |-> NoTitle, outline |-> <<>>]
    /\ output_files = <<>>
    /\ printed = <<>>
    /\ bpc = "idle"

HeadingsStart ==
    /\ pc = "start"
    /\ title = NoTitle
    /\ title_page = 0
    /\ body_text_size = R(0, 1)
    /\ heading_size_map = <<>>
    /\ outline = <<>>
    /\ seen_headings = {}
    /\ headings_per_page = [q \in PagesOf(lines) |-> 0]
    /\ i = 1

Init ==
    /\ lines \in Docs
    /\ pdf \in [title : PdfTitles, page_height : PageHeights]
    /\ HeadingsStart
    /\ BatchIdle

\* lines 136-148: the empty input, then the metadata title
GetMetadataTitle ==
    /\ pc = "start"
    /\ IF lines = <<>>
       THEN /\ pc' = "done"
            /\ title' = NoTitle
       ELSE /\ pc' = "profile"
            /\ title' = MetadataTitle(pdf)
    /\ UNCHANGED <<lines, pdf, title_page, body_text_size, heading_size_map, outline,
                   seen_headings, headings_per_page, i, bvars>>

\* lines 150-174: body text size and the heading size map
Profile ==
    /\ pc = "profile"
    /\ \E all_font_sizes \in {AllFontSizes(lines)} :
          IF all_font_sizes = <<>>
          THEN /\ pc' = "done"
               /\ UNCHANGED <<body_text_size, heading_size_map>>
          ELSE \E body \in {BodyTextSize(all_font_sizes)} :
               \E potential_heading_sizes \in {PotentialHeadingSizes(all_font_sizes, body)} :
                  /\ pc' = "title"
                  /\ body_text_size' = body
                  /\ heading_size_map' = HeadingSizeMap(potential_heading_sizes)
    /\ UNCHANGED <<lines, pdf, title, title_page, outline, seen_headings,
                   headings_per_page, i, bvars>>

\* lines 177-235: the visual title, then the empty accumulators of the loop
TitleDetection ==
    /\ pc = "title"
    /\ \E title_candidates \in {TitleCandidates(lines)} :
          title' = DetectTitle(title_candidates, title, body_text_size, pdf.page_height)
    /\ outline' = <<>>
    /\ seen_headings' = {}
    /\ headings_per_page' = [q \in PagesOf(lines) |-> 0]
    /\ i' = 1
    /\ pc' = "assemble"
    /\ UNCHANGED <<lines, pdf, title_page, body_text_size, heading_size_map, bvars>>

\* lines 237-279: one iteration of the loop over the lines
HeadingLoop ==
    /\ pc = "assemble"
    /\ i <= Len(lines)
    /\ LET acc == ProcessLine([outline |-> outline, seen |-> seen_headings,
                               count |-> headings_per_page],
                              lines[i], title, heading_size_map, body_text_size)
       IN  /\ outline' = acc.outline
           /\ seen_headings' = acc.seen
           /\ headings_per_page' = acc.count
    /\ i' = i + 1
    /\ UNCHANGED <<lines, pdf, pc, title, title_page, body_text_size, heading_size_map, bvars>>

\* lines 281-284: the loop is over, the outline is put in reading order
SortStep ==
    /\ pc = "assemble"
    /\ i > Len(lines)
    /\ outline' = SortOutline(outline)
    /\ pc' = "fallback"
    /\ UNCHANGED <<lines, pdf, title, title_page, body_text_size, heading_size_map,
                   seen_headings, headings_per_page, i, bvars>>

\* lines 286-294: the first H1 becomes the title when there is none
FallbackStep ==
    /\ pc = "fallback"
    /\ LET fb == Fallback(title, outline)
       IN  /\ title' = fb.title
           /\ title_page' = fb.page
           /\ outline' = fb.outline
    /\ pc' = "done"
    /\ UNCHANGED <<lines, pdf, body_text_size, heading_size_map, seen_headings,
                   headings_per_page, i, bvars>>

Next ==
    \/ GetMetadataTitle
    \/ Profile
    \/ TitleDetection
    \/ HeadingLoop
    \/ SortStep
    \/ FallbackStep

Spec == Init /\ [][Next]_vars

(***************************************************************************)
(* Properties of identify_headings                                         *)
(***************************************************************************)
Levels == {"H1", "H2", "H3"}

Score(line) == compute_heading_score(line, heading_size_map, body_text_size)

AtLeast95(avg_size, tier) ==
    Has(heading_size_map, tier) /\ RLe(RMul(Sz(heading_size_map[tier]), R(19, 20)), avg_size)

Under95(avg_size, tier) ==
    Has(heading_size_map, tier) => RLt(avg_size, RMul(Sz(heading_size_map[tier]), R(19, 20)))

\* the cascade as the specification words it
CascadeLevel(line) ==
    LET a == AvgSize(line)
        sc == Score(line)
    IN  IF AtLeast95(a, "H1") /\ sc >= 100 THEN "H1"
        ELSE IF AtLeast95(a, "H2") /\ Under95(a, "H1") /\ sc >= 90 THEN "H2"
        ELSE IF AtLeast95(a, "H3") /\ Under95(a, "H2") /\ sc >= 80 THEN "H3"
        ELSE None

InLoop == pc = "assemble" /\ i <= Len(lines)

Appended == Len(outline') = Len(outline) + 1

\* C2: no entry of the returned outline has the final title as its text on
\* the title's page: none on any page when the title comes from the metadata
\* or from a cluster, none on the promoted entry's page after the fallback.
C2_NoTitleInOutline ==
    pc = "done" =>
        \A k \in 1..Len(outline) :
            outline[k].text = title => (title_page # 0 /\ outline[k].page # title_page)

\* a line that would be a heading is left out because it is the title
C2_Witness ==
    /\ pc = "done"
    /\ title_page = 0
    /\ \E k \in 1..Len(lines) :
          /\ lines[k].text = title
          /\ lines[k].block_density <= 5
          /\ Score(lines[k]) >= 80
          /\ CascadeLevel(lines[k]) # None

FirstH1(o) == CHOOSE k \in 1..Len(o) : o[k].level = "H1" /\ \A j \in 1..(k - 1) : o[j].level # "H1"

\* C3: the fallback step: with no title and an H1 entry in the sorted
\* outline, the first H1 entry's text becomes the title and every entry with
\* that text on that page is removed, the others keep their order; without
\* an H1 entry (or with a title) nothing changes.
C3_FallbackPromotion ==
    [][pc = "fallback" =>
        IF title = NoTitle /\ \E k \in 1..Len(outline) : outline[k].level = "H1"
        THEN LET e == outline[FirstH1(outline)]
             IN  /\ title' = e.text
                 /\ outline' = SelectSeq(outline, LAMBDA x : ~(x.text = e.text /\ x.page = e.page))
        ELSE title' = title /\ outline' = outline]_vars

\* the promoted text was accepted at two levels on the promoted page, and
\* other entries stay
C3_Witness ==
    /\ pc = "done"
    /\ title_page # 0
    /\ outline # <<>>
    /\ \E a, b \in seen_headings :
          /\ a[1] = LowerStrip(title) /\ b[1] = LowerStrip(title)
          /\ a[2] = title_page /\ b[2] = title_page
          /\ a[3] # b[3]

\* C5: the returned outline is in reading order: adjacent entries are on
\* increasing pages or, on one page, at non-decreasing top y.
C5_ReadingOrder ==
    pc \in {"fallback", "done"} =>
        \A k \in 1..(Len(outline) - 1) :
            \/ outline[k].page < outline[k + 1].page
            \/ (outline[k].page = outline[k + 1].page /\ outline[k].y0 <= outline[k + 1].y0)

LineOf(e) == CHOOSE k \in 1..Len(lines) :
                 lines[k].text = e.text /\ lines[k].page = e.page /\ lines[k].y0 = e.y0

\* two kept entries were met in the other order, and the fallback removed
\* the promoted one
C5_Witness ==
    /\ pc = "done"
    /\ title_page # 0
    /\ \E a, b \in 1..Len(outline) : a < b /\ LineOf(outline[a]) > LineOf(outline[b])

AfterTitleDetection == pc = "assemble" /\ i = 1

Passing(cands) == {k \in 1..Len(cands) : PassesTextFilter(cands[k])}

ClusterScore(cands, k) == TitleScore(cands[k], body_text_size, pdf.page_height)

\* C7: after title detection the title is the text of the topmost
\* best-scoring cluster among those passing the text filter when that score
\* is at least 80, whatever the metadata title; otherwise it is the
\* provisional title.
C7_VisualTitle ==
    AfterTitleDetection =>
        LET cands == TitleCandidates(lines)
        IN  IF \E k \in Passing(cands) : ClusterScore(cands, k) >= 80
            THEN \E k \in Passing(cands) :
                    /\ \A j \in Passing(cands) : ClusterScore(cands, j) <= ClusterScore(cands, k)
                    /\ \A j \in Passing(cands) :
                          j < k => ClusterScore(cands, j) < ClusterScore(cands, k)
                    /\ title = JoinText(cands[k])
            ELSE title = MetadataTitle(pdf)

\* a metadata title is overridden by the topmost of two equally scored clusters
C7_Witness ==
    /\ AfterTitleDetection
    /\ MetadataTitle(pdf) # NoTitle
    /\ title # MetadataTitle(pdf)
    /\ LET cands == TitleCandidates(lines)
       IN  \E j, k \in Passing(cands) :
              /\ j < k
              /\ ClusterScore(cands, j) = ClusterScore(cands, k)
              /\ \A m \in Passing(cands) : ClusterScore(cands, m) <= ClusterScore(cands, k)
              /\ title = JoinText(cands[j])

\* C8: a line enters the outline only at the level the cascade gives it,
\* which is H1, H2 or H3, and only with a score of at least 80; a line the
\* cascade drops adds nothing.
C8_LevelCascade ==
    [][InLoop =>
        /\ Appended =>
              /\ outline'[Len(outline')].level = CascadeLevel(lines[i])
              /\ outline'[Len(outline')].text = lines[i].text
              /\ CascadeLevel(lines[i]) \in Levels
              /\ Score(lines[i]) >= 80
        /\ CascadeLevel(lines[i]) = None => outline' = outline]_vars

\* the returned outline has an entry of each level
C8_Witness ==
    /\ pc = "done"
    /\ \A lv \in Levels : \E k \in 1..Len(outline) : outline[k].level = lv

Tiers == <<"H1", "H2", "H3", "H4">>

\* C9: the heading size map is strictly descending by level, a tier is
\* present only if every tier above it is present, every tier below H1 is
\* under 95% of the H1 size and every tier is over 1.2 times the body size.
C9_TierChain ==
    pc \in {"title", "assemble", "fallback"} =>
        /\ \A k \in 2..4 : Has(heading_size_map, Tiers[k]) =>
              \A j \in 1..(k - 1) : Has(heading_size_map, Tiers[j])
        /\ \A j, k \in 1..4 :
              (j < k /\ Has(heading_size_map, Tiers[j]) /\ Has(heading_size_map, Tiers[k]))
                  => heading_size_map[Tiers[k]] < heading_size_map[Tiers[j]]
        /\ \A k \in 2..4 : Has(heading_size_map, Tiers[k]) =>
              Below95(heading_size_map[Tiers[k]], heading_size_map["H1"])
        /\ \A k \in 1..4 : Has(heading_size_map, Tiers[k]) =>
              RLt(RMul(body_text_size, R(6, 5)), Sz(heading_size_map[Tiers[k]]))

\* C10: a line whose average size is at least 95% of the H1 size is never
\* recorded at H2 or H3: it is accepted as H1 or adds nothing.
C10_NoLowerLevelAtH1Size ==
    [][(InLoop /\ AtLeast95(AvgSize(lines[i]), "H1")) =>
          (outline' = outline \/ (Appended /\ outline'[Len(outline')].level = "H1"))]_vars

(***************************************************************************)
(* The single-heading scenario: one page of body text at size 12 and one   *)
(* line "1. Introduction" at size 24, bold, centered, in a sparse block,   *)
(* with more than twice its size of space above; no metadata title.        *)
(***************************************************************************)
MaxScenarioLines == 4

BodyShapes == {
    Ln("body text", 1, 80, 92, <<Sp(1200, 4)>>, TRUE, 1),
    Ln("body text", 1, 100, 112, <<Sp(1200, 0), Sp(1200, 0), Sp(1200, 0)>>, FALSE, 6),
    Ln(LongText, 1, 500, 512, <<Sp(1200, 0), Sp(1200, 4)>>, FALSE, 4),
    Ln("body text", 1, 600, 612, <<Sp(1200, 0)>>, TRUE, 2) }

HeadingShapes ==
    {Ln("1. Introduction", 1, y, y + 24, sp, TRUE, dens) :
        y \in {150, 300}, sp \in {<<Sp(2400, 4)>>, <<Sp(2400, 4), Sp(2400, 0)>>}, dens \in {1, 3}}

IsScenarioHeading(l) == l.text = "1. Introduction"

ScenarioDocs ==
    {d \in {WithSpacing(t) :
              t \in UNION {[1..n -> BodyShapes \cup HeadingShapes] : n \in 2..MaxScenarioLines}} :
        /\ \A a, b \in 1..Len(d) : a < b => d[a] # d[b]
        /\ Cardinality({k \in 1..Len(d) : IsScenarioHeading(d[k])}) = 1
        /\ \A k \in 1..Len(d) : IsScenarioHeading(d[k]) => d[k].spacing_above > 2 * 24}

InitScenario ==
    /\ lines \in ScenarioDocs
    /\ pdf \in [title : {""}, page_height : PageHeights]
    /\ HeadingsStart
    /\ BatchIdle

SpecScenario == InitScenario /\ [][Next]_vars

SpansOfSize(sz) == Len(SelectSeq(AllFontSizes(lines), LAMBDA x : x = sz))

\* C1 as stated: the scenario's outline is the single H1 entry
C1_SingleHeadingOutline ==
    pc = "done" =>
        Returned(outline) = <<[level |-> "H1", text |-> "1. Introduction", page |-> 1]>>

\* C1 amended: in the scenario the returned outline is empty, and the line
\* is the returned title whenever the size-12 spans are at least as many as
\* the size-24 spans.
C1_HeadingBecomesTitle ==
    pc = "done" =>
        /\ outline = <<>>
        /\ SpansOfSize(1200) >= SpansOfSize(2400) => title = "1. Introduction"

\* the line qualifies as H1, is the visual title and is not in the outline
C1_Witness ==
    /\ pc = "done"
    /\ title = "1. Introduction"
    /\ title_page = 0
    /\ outline = <<>>
    /\ \E k \in 1..Len(lines) : IsScenarioHeading(lines[k]) /\ CascadeLevel(lines[k]) = "H1"

(***************************************************************************)
(* Documents with more qualifying lines on a page than the cap allows      *)
(***************************************************************************)
MaxCapLines == 11

CapTexts == <<"1. Introduction", "Chapter 1", "Summary", "Annual Report 2024", "Draft", "FAQ">>

CapBody ==
    Ln(LongText, 1, 80, 92, [k \in 1..(MaxCapLines + 2) |-> Sp(1200, 0)], FALSE, 6)

\* line k of the document: on page 1 up to line m, a line the cascade drops
\* when k = w
CapLine(k, m, w) ==
    Ln(CapTexts[((k - 1) % 6) + 1],
       IF k <= m THEN 1 ELSE 2,
       100 + 40 * k, 124 + 40 * k,
       <<Sp(IF k <= 6 THEN 2400 ELSE 1800, IF k = w THEN 0 ELSE 4)>>,
       FALSE,
       IF k = w THEN 4 ELSE 1)

CapDocs ==
    {WithSpacing(<<CapBody>> \o [k \in 1..MaxCapLines |-> CapLine(k, m, w)]) :
        m \in 0..MaxCapLines, w \in 0..MaxCapLines}

InitCap ==
    /\ lines \in CapDocs
    /\ pdf \in [title : {"", " Draft "}, page_height : PageHeights]
    /\ HeadingsStart
    /\ BatchIdle

SpecCap == InitCap /\ [][Next]_vars

EntriesOnPage(p) == Cardinality({k \in 1..Len(outline) : outline[k].page = p})

\* C4: no page has more than 9 entries; a page's count grows by one exactly
\* when an entry of that page is appended, and once it is 9 every later
\* line of the page adds nothing.
C4_PerPageCap ==
    /\ [](\A p \in PagesOf(lines) : EntriesOnPage(p) <= 9 /\ headings_per_page[p] <= 9)
    /\ [][InLoop =>
            /\ \A p \in PagesOf(lines) :
                  headings_per_page'[p] =
                      IF Appended /\ outline'[Len(outline')].page = p
                      THEN headings_per_page[p] + 1 ELSE headings_per_page[p]
            /\ headings_per_page[lines[i].page] >= 9 => outline' = outline]_vars

\* a page took 9 headings and a further qualifying new line of it was skipped
C4_Witness ==
    /\ pc = "done"
    /\ \E k \in 1..Len(lines) :
          /\ headings_per_page[lines[k].page] = 9
          /\ lines[k].text # title
          /\ Score(lines[k]) >= 100
          /\ CascadeLevel(lines[k]) # None
          /\ <<LowerStrip(lines[k].text), lines[k].page, CascadeLevel(lines[k])>> \notin seen_headings

(***************************************************************************)
(* process_pdfs: the loop over the PDF files of the input directory        *)
(***************************************************************************)
MaxFiles == 3

\* a file: whether fitz can read it, the lines retained from it, its
\* metadata title and first page height
BatchFiles == {
    [readable |-> FALSE, lines |-> <<>>, title |-> "", page_height |-> 800],
    [readable |-> TRUE, lines |-> <<>>, title |-> "Draft", page_height |-> 800],
    [readable |-> TRUE, lines |-> WithSpacing(<<Shapes[1], Shapes[2], Shapes[8]>>),
     title |-> "", page_height |-> 800],
    [readable |-> TRUE, lines |-> WithSpacing(<<Shapes[6]>>),
     title |-> "Draft", page_height |-> 800] }

\* extract_text_details: the retained lines, [] when an exception is caught
ExtractTextDetails(file) == IF file.readable THEN file.lines ELSE <<>>

\* the content of an output file that was not written
NoFile == <<>>

HeadingsIdle ==
    /\ lines = <<>>
    /\ pdf = [title |-> "", page_height |-> 800]
    /\ pc = "idle"
    /\ title = NoTitle
    /\ title_page = 0
    /\ body_text_size = R(0, 1)
    /\ heading_size_map = <<>>
    /\ outline = <<>>
    /\ seen_headings = {}
    /\ headings_per_page = <<>>
    /\ i = 1

InitBatch ==
    /\ pdf_files \in UNION {[1..n -> BatchFiles] : n \in 0..MaxFiles}
    /\ f = 0
    /\ structured_output = [title |-> NoTitle, outline |-> <<>>]
    /\ output_files = [k \in 1..Len(pdf_files) |-> NoFile]
    /\ printed = <<>>
    /\ bpc = "start"
    /\ HeadingsIdle

\* lines 298-305: the directory listing; no file ends the run
ListFiles ==
    /\ bpc = "start"
    /\ IF pdf_files = <<>>
       THEN /\ bpc' = "exit"
            /\ printed' = Append(printed, [msg |-> "no_pdf_files", file |-> 0])
            /\ f' = f
       ELSE /\ bpc' = "extract"
            /\ printed' = printed
            /\ f' = 1
    /\ UNCHANGED <<pdf_files, structured_output, output_files, hvars>>

\* variant: a file without lines ends the loop
Extract_Abort ==
    /\ bpc = "extract"
    /\ f <= Len(pdf_files)
    /\ IF ExtractTextDetails(pdf_files[f]) = <<>>
       THEN /\ printed' = Append(printed, [msg |-> "skipping", file |-> f])
            /\ f' = f + 1
            /\ bpc' = "done"
            /\ UNCHANGED hvars
       ELSE /\ printed' = printed
            /\ f' = f
            /\ bpc' = "identify"
            /\ lines' = ExtractTextDetails(pdf_files[f])
            /\ pdf' = [title |-> pdf_files[f].title, page_height |-> pdf_files[f].page_height]
            /\ pc' = "start"
            /\ title' = NoTitle
            /\ title_page' = 0
            /\ body_text_size' = R(0, 1)
            /\ heading_size_map' = <<>>
            /\ outline' = <<>>
            /\ seen_headings' = {}
            /\ headings_per_page' = [q \in PagesOf(ExtractTextDetails(pdf_files[f])) |-> 0]
            /\ i' = 1
    /\ UNCHANGED <<pdf_files, structured_output, output_files>>

\* lines 307-314: the next file is extracted; without lines it is skipped,
\* with lines identify_headings is called on them
Extract ==
    /\ bpc = "extract"
    /\ f <= Len(pdf_files)
    /\ IF ExtractTextDetails(pdf_files[f]) = <<>>
       THEN /\ printed' = Append(printed, [msg |-> "skipping", file |-> f])
            /\ f' = f + 1
            /\ bpc' = "extract"
            /\ UNCHANGED hvars
       ELSE /\ printed' = printed
            /\ f' = f
            /\ bpc' = "identify"
            /\ lines' = ExtractTextDetails(pdf_files[f])
            /\ pdf' = [title |-> pdf_files[f].title, page_height |-> pdf_files[f].page_height]
            /\ pc' = "start"
            /\ title' = NoTitle
            /\ title_page' = 0
            /\ body_text_size' = R(0, 1)
            /\ heading_size_map' = <<>>
            /\ outline' = <<>>
            /\ seen_headings' = {}
            /\ headings_per_page' = [q \in PagesOf(ExtractTextDetails(pdf_files[f])) |-> 0]
            /\ i' = 1
    /\ UNCHANGED <<pdf_files, structured_output, output_files>>

\* line 314: identify_headings returns the title and the outline
Identified ==
    /\ bpc = "identify"
    /\ pc = "done"
    /\ structured_output' = [title |-> title, outline |-> Returned(outline)]
    /\ bpc' = "save"
    /\ UNCHANGED <<pdf_files, f, output_files, printed, hvars>>

\* lines 315-322: the output is written, or the failure to write is reported
Save ==
    /\ bpc = "save"
    /\ \E ok \in BOOLEAN :
          IF ok
          THEN /\ output_files' = [output_files EXCEPT ![f] = <<structured_output>>]
               /\ printed' = Append(printed, [msg |-> "generated", file |-> f])
          ELSE /\ output_files' = output_files
               /\ printed' = Append(printed, [msg |-> "error_saving", file |-> f])
    /\ f' = f + 1
    /\ bpc' = "extract"
    /\ UNCHANGED <<pdf_files, structured_output, hvars>>

\* the loop is over and process_pdfs returns
Finish ==
    /\ bpc = "extract"
    /\ f > Len(pdf_files)
    /\ bpc' = "done"
    /\ UNCHANGED <<pdf_files, f, structured_output, output_files, printed, hvars>>

NextBatch ==
    \/ ListFiles
    \/ Extract
    \/ GetMetadataTitle
    \/ Profile
    \/ TitleDetection
    \/ HeadingLoop
    \/ SortStep
    \/ FallbackStep
    \/ Identified
    \/ Save
    \/ Finish

\* the interpreter runs the loop on: a step that can be taken is taken
SpecBatch == InitBatch /\ [][NextBatch]_vars /\ WF_vars(NextBatch)

Printed(m, k) == \E n \in 1..Len(printed) : printed[n] = [msg |-> m, file |-> k]

TimesPrinted(k) == Cardinality({n \in 1..Len(printed) : printed[n].file = k})

ExtractionFailed(k) == ExtractTextDetails(pdf_files[k]) = <<>>

\* C6 as stated: at the end every file whose extraction failed has no
\* output and every other file has its output record.
C6_EveryExtractedFileHasOutput ==
    bpc = "done" =>
        \A k \in 1..Len(pdf_files) :
            IF ExtractionFailed(k) THEN output_files[k] = NoFile
            ELSE Len(output_files[k]) = 1

\* C6 amended: the run always ends; at its end every file was handled once:
\* a file whose extraction failed was skipped and has no output, every other
\* file has its one output record unless writing it failed, and then it has
\* none and the failure was reported.
C6_BatchCompletes ==
    /\ <>(bpc \in {"done", "exit"})
    /\ [](bpc = "done" =>
            \A k \in 1..Len(pdf_files) :
                /\ TimesPrinted(k) = 1
                /\ IF ExtractionFailed(k)
                   THEN Printed("skipping", k) /\ output_files[k] = NoFile
                   ELSE \/ /\ Printed("generated", k)
                           /\ Len(output_files[k]) = 1
                        \/ /\ Printed("error_saving", k)
                           /\ output_files[k] = NoFile)

\* a failed extraction and a failed write are followed by a written output
C6_Witness ==
    /\ bpc = "done"
    /\ \E a, b, c \in 1..Len(pdf_files) :
          /\ a < c /\ b < c
          /\ Printed("skipping", a)
          /\ Printed("error_saving", b)
          /\ Printed("generated", c)
          /\ output_files[c] # NoFile

====
